---- MODULE Spec2Model ----
(***************************************************************************)
(* Model of fsm::StateMachine (fsm/StateMachine.hpp), its actions and the  *)
(* door example (example/main.cpp).                                        *)
(*                                                                         *)
(* Several machines live side by side in numbered slots so that copy,     *)
(* move and assignment between machines can be observed.  A pointer is    *)
(* the pair (owning machine, tuple position), so that a pointer into       *)
(* another machine's tuple, or a null one, is distinguishable from a       *)
(* pointer into the machine's own tuple.                                   *)
(***************************************************************************)
EXTENDS Naturals, Sequences, FiniteSets

\* ---------------------------------------------------------------- bounds
NumMachines == 2

Machines == 1..NumMachines

\* uint32_t key values: the ones main() uses.  A door is locked with 0x11 or
\* 1234; an unlock is tried with one of these or with 2.
Keys == {17, 1234}

UnlockKeys == Keys \cup {2}

\* ---------------------------------------------------------------- events
OpenEvent == [type |-> "OpenEvent"]

CloseEvent == [type |-> "CloseEvent"]

LockEvent(newKey) == [type |-> "LockEvent", newKey |-> newKey]

UnlockEvent(key) == [type |-> "UnlockEvent", key |-> key]

Events == {OpenEvent, CloseEvent} \cup {LockEvent(k) : k \in Keys} \cup {UnlockEvent(k) : k \in UnlockKeys}


NoEvent == [type |-> "none"]

\* ---------------------------------------------------------------- actions
Nothing == [action |-> "Nothing"]

TransitionTo(TargetState) == [action |-> "TransitionTo", target |-> TargetState]

\* OneOf holds exactly one of its alternatives: the std::variant `options`.
OneOf(Actions, arg) == [action |-> "OneOf", alternatives |-> Actions, options |-> arg]

\* Variant of Maybe that drops its argument and holds its first alternative.
MaybeDefault(Action, arg) == OneOf(<<Action, Nothing>>, Action)

\* struct Maybe : public OneOf<Action, Nothing>, with OneOf's constructors.
Maybe(Action, arg) == OneOf(<<Action, Nothing>>, arg)

\* ---------------------------------------------------------------- states
\* State values.  The keyed LockedState is the one of example/main.cpp; the
\* LockedState without data is the default-constructible one of the article.
ClosedState == [type |-> "ClosedState"]

OpenState == [type |-> "OpenState"]

LockedState(key) == [type |-> "LockedState", key |-> key]

LockedStateDefault == [type |-> "LockedState"]

\* The state type list of Door, in tuple order.
Door == <<"ClosedState", "OpenState", "LockedState">>

Indices == 0..(Len(Door) - 1)

\* std::get<I>(t) on a tuple value (0-based position).
get(t, I) == t[I + 1]

\* Position of std::get<State>(states): the one element of that type.
IndexOf(State) == CHOOSE i \in Indices : get(Door, i) = State

\* ---------------------------------------------------------------- handlers
\* Variant of ByDefault that answers an OpenEvent with a transition.
ByDefaultReopens(Action, event) ==
    IF event.type = "OpenEvent" THEN TransitionTo("OpenState") ELSE Action

\* ByDefault<Action>::handle: the same action for every event type.
ByDefault(Action, event) == Action

\* On<Event, Action>: a handler for exactly the event type Event.
On(Event, Action) == [event |-> Event, action |-> Action]

\* Will<ByDefault<Default>, On...>: the overloads of all bases in one
\* overload set; the non-template overload of an On base for exactly the
\* event's type is preferred to the template of ByDefault.
Will(Default, Handlers, event) ==
    IF \E i \in DOMAIN Handlers : Handlers[i].event = event.type
    THEN Handlers[CHOOSE i \in DOMAIN Handlers : Handlers[i].event = event.type].action
    ELSE ByDefault(Default, event)

\* Variant of ClosedStateHandle with the two targets exchanged.
ClosedStateHandleSwapped(self, event) ==
    Will(Nothing,
         <<On("LockEvent", TransitionTo("OpenState")),
           On("OpenEvent", TransitionTo("LockedState"))>>,
         event)

ClosedStateHandle(self, event) ==
    Will(Nothing,
         <<On("LockEvent", TransitionTo("LockedState")),
           On("OpenEvent", TransitionTo("OpenState"))>>,
         event)

\* OpenState: Will<ByDefault<Nothing>, On<CloseEvent, TransitionTo<ClosedState>>>
OpenStateHandle(self, event) ==
    Will(Nothing, <<On("CloseEvent", TransitionTo("ClosedState"))>>, event)

\* Variant of LockedStateHandle that accepts every key.
LockedStateHandleAnyKey(self, event) ==
    IF event.type = "UnlockEvent"
    THEN Maybe(TransitionTo("ClosedState"), TransitionTo("ClosedState"))
    ELSE ByDefault(Nothing, event)

\* LockedState of example/main.cpp: handle(const UnlockEvent&) compares the
\* keys; every other event goes to ByDefault<Nothing>::handle.
LockedStateHandle(self, event) ==
    IF event.type = "UnlockEvent"
    THEN IF event.key = self.key
         THEN Maybe(TransitionTo("ClosedState"), TransitionTo("ClosedState"))
         ELSE Maybe(TransitionTo("ClosedState"), Nothing)
    ELSE ByDefault(Nothing, event)

\* LockedState of the article before the key is introduced: one handler per
\* event, UnlockEvent always leads to ClosedState.
LockedStateDefaultHandle(self, event) ==
    IF event.type = "UnlockEvent" THEN TransitionTo("ClosedState") ELSE Nothing

\* statePtr->handle(event): the overload set of the static type of *statePtr.
StateHandle(self, event) ==
    CASE self.type = "ClosedState" -> ClosedStateHandle(self, event)
      [] self.type = "OpenState" -> OpenStateHandle(self, event)
      [] self.type = "LockedState" /\ "key" \in DOMAIN self -> LockedStateHandle(self, event)
      [] self.type = "LockedState" /\ "key" \notin DOMAIN self -> LockedStateDefaultHandle(self, event)
      [] OTHER -> Nothing

\* Variant of LockedStateOnEnter that stores a fixed key.
LockedStateOnEnterFixed(self, e) == [self EXCEPT !.key = 17]

\* Variant of LockedStateOnEnter that does not store the key.
LockedStateOnEnterKeep(self, e) == self

\* void LockedState::onEnter(const LockEvent& e) { key = e.newKey; }
LockedStateOnEnter(self, e) == [self EXCEPT !.key = e.newKey]

\* Does the state type have an onEnter / onLeave overload for the event?
HasOnEnter(self, event) ==
    self.type = "LockedState" /\ "key" \in DOMAIN self /\ event.type = "LockEvent"

HasOnLeave(self, event) == FALSE

OnEnter(self, event) == IF HasOnEnter(self, event) THEN LockedStateOnEnter(self, event) ELSE self

OnLeave(self, event) == self

\* ---------------------------------------------------------------- machine state
VARIABLES
    alive,          \* alive[m]: machine m is constructed and not yet destroyed
    states,         \* states[m]: std::tuple<States...> states
    currentState,   \* currentState[m]: std::variant<States*...> currentState
    pc,             \* where the (single) thread of control is inside handle
    lastOp,         \* history: the latest operation and the calls it made
    mainRun,        \* history: the first mainRun[m] statements of main(), on m, are all that happened last
    copied,         \* history: the latest copy, while only its original handles events and until it has left the copied state
    refs            \* the machines whose LockedState& the caller holds, from transitionTo

vars == <<alive, states, currentState, pc, lastOp, mainRun, copied, refs>>

\* A State* value: which machine's tuple it points into and at which position.
NullPtr == [machine |-> 0, elem |-> 0]

\* &std::get<I>(states) of machine m.
AddressOf(m, I) == [machine |-> m, elem |-> I]

\* A std::variant<States*...> value: the alternative and the pointer it holds.
Variant(I, ptr) == [index |-> I, ptr |-> ptr]

\* A default-constructed variant: first alternative, value-initialised.
VariantDefault == Variant(0, NullPtr)

\* The object a pointer refers to; a pointer that refers to no live object
\* yields no state at all.
Deref(ptr) ==
    IF ptr.machine \in Machines /\ alive[ptr.machine]
    THEN get(states[ptr.machine], ptr.elem)
    ELSE [type |-> "invalid"]

\* Variant of Store for a field shared by all instances of the state type, as
\* a static data member is.
StoreStatic(ptr, value) ==
    IF ptr.machine \in Machines /\ alive[ptr.machine]
    THEN [m \in Machines |->
             IF alive[m] THEN [states[m] EXCEPT ![ptr.elem + 1] = value] ELSE states[m]]
    ELSE states

\* Assignment through a pointer.
Store(ptr, value) ==
    IF ptr.machine \in Machines /\ alive[ptr.machine]
    THEN [states EXCEPT ![ptr.machine][ptr.elem + 1] = value]
    ELSE states

\* ---------------------------------------------------------------- TupleTools
\* tuple_runtime_access_table::accessTemplateTuplele<Ind>(t, func) with the
\* converter of runtime_get, [](auto& element) { return &element; }; the
\* tuple t is identified by the machine that owns it.
accessTemplateTuplele(Ind, t) == Variant(Ind, AddressOf(t, Ind))

\* lookup_table = {{&accessTemplateTuplele<Idxs>...}}
lookup_table == [Ind \in Indices |-> Ind]

\* Variant of call_access_function that always takes the first table entry.
call_access_function_first(t, i) == accessTemplateTuplele(lookup_table[0], t)

call_access_function(t, i) == accessTemplateTuplele(lookup_table[i], t)

runtime_get(t, i) == call_access_function(t, i)

\* ---------------------------------------------------------------- StateMachine
\* The tuple built by Door{ClosedState{}, OpenState{}, LockedState{key}}.
DoorStates(key) == <<ClosedState, OpenState, LockedState(key)>>

\* The value-initialised tuple of the default constructor.
DefaultStates == <<ClosedState, OpenState, LockedStateDefault>>

\* Two machines are of the same class when their tuples have the same
\* element types.
SameType(a, b) ==
    \A I \in Indices : DOMAIN get(states[a], I) = DOMAIN get(states[b], I)

\* The door of main.cpp and the door of the article are two programs whose
\* state types have the same names: the machines alive at one time are all
\* of the class of the tuple states_in.
OneProgram(states_in) ==
    \A o \in Machines :
       alive[o] => \A I \in Indices : DOMAIN get(states[o], I) = DOMAIN get(states_in, I)

\* Variant of transitionTo that returns without storing the new pointer.
transitionToStale(m, State) == currentState[m]

\* State& transitionTo<State>(): the new value of currentState.
transitionTo(m, State) == Variant(IndexOf(State), AddressOf(m, IndexOf(State)))

\* Variant of Held that visits an alternative other than the held one.
HeldOther(action) ==
    IF action.action = "OneOf"
    THEN LET others == {k \in DOMAIN action.alternatives :
                            action.alternatives[k] # action.options}
         IN IF others = {} THEN action.options
            ELSE action.alternatives[CHOOSE k \in others : TRUE]
    ELSE action

\* Variant of Held that visits the first alternative instead of the held one.
HeldFirst(action) ==
    IF action.action = "OneOf" THEN action.alternatives[1] ELSE action

\* The action a OneOf finally executes: the held alternative, recursively.
RECURSIVE Held(_)
Held(action) == IF action.action = "OneOf" THEN Held(action.options) ELSE action

\* One call made while an operation runs: the function, the object it is
\* called on, the arguments, what it returned, and the current state of the
\* machine at the moment of the call.
Call(fn, self, machine, state, event, result) ==
    [fn |-> fn, self |-> self, machine |-> machine, state |-> state,
     event |-> event, result |-> result, current |-> currentState[machine]]

\* The calls of action.execute(machine, state, event) down to the leaf action.
RECURSIVE ExecuteCalls(_, _, _, _)
ExecuteCalls(action, machine, state, event) ==
    <<Call("execute", action, machine, state, event, "void")>> \o
    (IF action.action = "OneOf"
     THEN ExecuteCalls(action.options, machine, state, event)
     ELSE <<>>)

\* The record of an operation: its kind, the machine it acts on, the other
\* machine involved, its argument, the variant it read (the machine's own
\* currentState for handle, other.currentState for a copy or move) and the
\* calls it made.
Op(kind, m, src, args, from, calls) ==
    [kind |-> kind, m |-> m, src |-> src, args |-> args, from |-> from, calls |-> calls]

Idle == [at |-> "idle", machine |-> 0, state |-> NullPtr, target |-> "none", event |-> NoEvent]

At(at, machine, state, target, event) ==
    [at |-> at, machine |-> machine, state |-> state, target |-> target, event |-> event]

\* ---------------------------------------------------------------- histories
\* The statements of main(), in order.
Statement(op, key, event) == [op |-> op, key |-> key, event |-> event]

Main ==
    <<Statement("Door", 17, NoEvent),
      Statement("handle", 0, LockEvent(1234)),
      Statement("handle", 0, UnlockEvent(2)),
      Statement("handle", 0, UnlockEvent(1234))>>

\* The statement that constructs a door from the tuple states_in; the door of
\* main() has a LockedState with a key.
DoorStatement(states_in) ==
    IF "key" \in DOMAIN get(states_in, 2)
    THEN Statement("Door", get(states_in, 2).key, NoEvent)
    ELSE Statement("Door", 0, NoEvent)

\* mainRun after statement stmt is run on machine m: main() has one machine
\* and nothing else happens in it, so the run of any other machine ends.
MainRunStep(m, stmt) ==
    [o \in Machines |->
        IF o = m /\ mainRun[m] < Len(Main) /\ Main[mainRun[m] + 1] = stmt
        THEN mainRun[m] + 1
        ELSE 0]

\* mainRun after an operation on machine m that is not a statement of main().
MainRunOff(m) == [o \in Machines |-> 0]

NoCopy == [copy |-> 0, orig |-> 0, index |-> 0]

\* The copy record is kept while the original handles events, up to and
\* with the handle that takes it out of the state it was copied in, and is
\* dropped by every other operation: after handle starts on machine m.
CopiedHandle(m) ==
    IF copied.orig = m /\ currentState[m].index = copied.index THEN copied ELSE NoCopy

\* ---------------------------------------------------------------- operations
Init ==
    /\ alive = [m \in Machines |-> FALSE]
    /\ states = [m \in Machines |-> <<>>]
    /\ currentState = [m \in Machines |-> VariantDefault]
    /\ pc = Idle
    /\ lastOp = Op("none", 0, 0, <<>>, VariantDefault, <<>>)
    /\ mainRun = [m \in Machines |-> 0]
    /\ copied = NoCopy
    /\ refs = {}

\* StateMachine() : currentState(&std::get<0>(states)) {}
DefaultConstruct(m) ==
    /\ pc = Idle /\ ~alive[m]
    /\ alive' = [alive EXCEPT ![m] = TRUE]
    /\ states' = [states EXCEPT ![m] = DefaultStates]
    /\ currentState' = [currentState EXCEPT ![m] = Variant(0, AddressOf(m, 0))]
    /\ lastOp' = Op("StateMachine()", m, 0, <<>>, VariantDefault, <<>>)
    /\ mainRun' = MainRunOff(m)
    /\ copied' = NoCopy
    /\ refs' = refs
    /\ UNCHANGED pc

\* Variant of Construct that starts in the last state instead of the first.
ConstructLast(m, states_in) ==
    /\ pc = Idle /\ ~alive[m]
    /\ alive' = [alive EXCEPT ![m] = TRUE]
    /\ states' = [states EXCEPT ![m] = states_in]
    /\ currentState' = [currentState EXCEPT ![m] = Variant(2, AddressOf(m, 2))]
    /\ lastOp' = Op("StateMachine(States...)", m, 0, states_in, VariantDefault, <<>>)
    /\ mainRun' = MainRunStep(m, DoorStatement(states_in))
    /\ copied' = NoCopy
    /\ refs' = refs
    /\ UNCHANGED pc

\* StateMachine(States... states_in) : states(std::move(states_in)...)
\* { currentState = &std::get<0>(states); }
Construct(m, states_in) ==
    /\ pc = Idle /\ ~alive[m]
    /\ alive' = [alive EXCEPT ![m] = TRUE]
    /\ states' = [states EXCEPT ![m] = states_in]
    /\ currentState' = [currentState EXCEPT ![m] = Variant(0, AddressOf(m, 0))]
    /\ lastOp' = Op("StateMachine(States...)", m, 0, states_in, VariantDefault, <<>>)
    /\ mainRun' = MainRunStep(m, DoorStatement(states_in))
    /\ copied' = NoCopy
    /\ refs' = refs
    /\ UNCHANGED pc

\* virtual ~StateMachine() noexcept
Destroy(m) ==
    /\ pc = Idle /\ alive[m]
    /\ alive' = [alive EXCEPT ![m] = FALSE]
    /\ states' = [states EXCEPT ![m] = <<>>]
    /\ currentState' = [currentState EXCEPT ![m] = VariantDefault]
    /\ lastOp' = Op("~StateMachine()", m, 0, <<>>, VariantDefault, <<>>)
    /\ mainRun' = MainRunOff(m)
    /\ copied' = NoCopy
    /\ refs' = refs \ {m}
    /\ UNCHANGED pc

\* Variant of CopyConstruct that copies the variant member by member, as the
\* implicitly defined copy constructor would.
CopyConstructShallow(m, other) ==
    /\ pc = Idle /\ ~alive[m] /\ alive[other]
    /\ alive' = [alive EXCEPT ![m] = TRUE]
    /\ states' = [states EXCEPT ![m] = states[other]]
    /\ currentState' = [currentState EXCEPT ![m] = currentState[other]]
    /\ lastOp' = Op("StateMachine(const StateMachine&)", m, other, <<>>, currentState[other], <<>>)
    /\ mainRun' = MainRunOff(m)
    /\ copied' = [copy |-> m, orig |-> other, index |-> currentState[other].index]
    /\ refs' = refs
    /\ UNCHANGED pc

\* Variant of CopyConstruct that makes the first state current, as the other
\* constructors do.
CopyConstructFirst(m, other) ==
    /\ pc = Idle /\ ~alive[m] /\ alive[other]
    /\ alive' = [alive EXCEPT ![m] = TRUE]
    /\ states' = [states EXCEPT ![m] = states[other]]
    /\ currentState' = [currentState EXCEPT ![m] = Variant(0, AddressOf(m, 0))]
    /\ lastOp' = Op("StateMachine(const StateMachine&)", m, other, <<>>, currentState[other], <<>>)
    /\ mainRun' = MainRunOff(m)
    /\ copied' = [copy |-> m, orig |-> other, index |-> currentState[other].index]
    /\ refs' = refs
    /\ UNCHANGED pc

\* StateMachine(const StateMachine& other) : states(other.states)
\* { currentState = runtime_get(states, other.currentState.index()); }
CopyConstruct(m, other) ==
    /\ pc = Idle /\ ~alive[m] /\ alive[other]
    /\ alive' = [alive EXCEPT ![m] = TRUE]
    /\ states' = [states EXCEPT ![m] = states[other]]
    /\ currentState' = [currentState EXCEPT ![m] = runtime_get(m, currentState[other].index)]
    /\ lastOp' = Op("StateMachine(const StateMachine&)", m, other, <<>>, currentState[other], <<>>)
    /\ mainRun' = MainRunOff(m)
    /\ copied' = [copy |-> m, orig |-> other, index |-> currentState[other].index]
    /\ refs' = refs
    /\ UNCHANGED pc

\* StateMachine(StateMachine&& other) : states(std::move(other.states))
\* { currentState = runtime_get(states, other.currentState.index()); }
\* The tuple is moved member by member, which for these state types leaves
\* the source as it was.
MoveConstruct(m, other) ==
    /\ pc = Idle /\ ~alive[m] /\ alive[other]
    /\ alive' = [alive EXCEPT ![m] = TRUE]
    /\ states' = [states EXCEPT ![m] = states[other]]
    /\ currentState' = [currentState EXCEPT ![m] = runtime_get(m, currentState[other].index)]
    /\ lastOp' = Op("StateMachine(StateMachine&&)", m, other, <<>>, currentState[other], <<>>)
    /\ mainRun' = MainRunOff(m)
    /\ copied' = NoCopy
    /\ refs' = refs
    /\ UNCHANGED pc

\* Variant of CopyAssign that copies the variant member by member, so that
\* the destination holds the source's pointer.
CopyAssignShallow(m, other) ==
    /\ pc = Idle /\ alive[m] /\ alive[other] /\ SameType(m, other)
    /\ IF m # other
       THEN /\ states' = [states EXCEPT ![m] = states[other]]
            /\ currentState' = [currentState EXCEPT ![m] = currentState[other]]
            /\ mainRun' = MainRunOff(m)
            /\ copied' = [copy |-> m, orig |-> other, index |-> currentState[other].index]
            /\ refs' = refs
       ELSE /\ copied' = NoCopy
            /\ refs' = refs
            /\ UNCHANGED <<states, currentState, mainRun>>
    /\ lastOp' = Op("operator=(const StateMachine&)", m, other, <<>>, currentState[other], <<>>)
    /\ UNCHANGED <<alive, pc>>

\* StateMachine& operator=(const StateMachine& other)
CopyAssign(m, other) ==
    /\ pc = Idle /\ alive[m] /\ alive[other] /\ SameType(m, other)
    /\ IF m # other
       THEN /\ states' = [states EXCEPT ![m] = states[other]]
            /\ currentState' = [currentState EXCEPT ![m] = runtime_get(m, currentState[other].index)]
            /\ mainRun' = MainRunOff(m)
            /\ copied' = [copy |-> m, orig |-> other, index |-> currentState[other].index]
            /\ refs' = refs
       ELSE /\ copied' = NoCopy
            /\ refs' = refs
            /\ UNCHANGED <<states, currentState, mainRun>>
    /\ lastOp' = Op("operator=(const StateMachine&)", m, other, <<>>, currentState[other], <<>>)
    /\ UNCHANGED <<alive, pc>>

\* StateMachine& operator=(StateMachine&& other)
MoveAssign(m, other) ==
    /\ pc = Idle /\ alive[m] /\ alive[other] /\ SameType(m, other)
    /\ IF m # other
       THEN /\ states' = [states EXCEPT ![m] = states[other]]
            /\ currentState' = [currentState EXCEPT ![m] = runtime_get(m, currentState[other].index)]
            /\ mainRun' = MainRunOff(m)
       ELSE UNCHANGED <<states, currentState, mainRun>>
    /\ lastOp' = Op("operator=(StateMachine&&)", m, other, <<>>, currentState[other], <<>>)
    /\ copied' = NoCopy
    /\ refs' = refs
    /\ UNCHANGED <<alive, pc>>

\* A direct call of the public transitionTo<State>().
TransitionToCall(m, State) ==
    /\ pc = Idle /\ alive[m]
    /\ currentState' = [currentState EXCEPT ![m] = transitionTo(m, State)]
    /\ lastOp' = Op("transitionTo", m, 0, <<>>, currentState[m],
                    <<Call("transitionTo", State, m, NullPtr, NoEvent, transitionTo(m, State).ptr)>>)
    /\ mainRun' = MainRunOff(m)
    /\ copied' = NoCopy
    /\ refs' = IF HasOnEnter(Deref(transitionTo(m, State).ptr), LockEvent(17))
                THEN refs \cup {m}
                ELSE refs
    /\ UNCHANGED <<alive, states, pc>>

\* The kind recorded for handleBy(event, machine) called on machine m:
\* handle(event) is handleBy(event, *this); a call with another machine is
\* recorded as handleBy.
HandleKind(m, machine) == IF m = machine THEN "handle" ELSE "handleBy"

\* The record of handleBy(event, machine) called on machine m: the event, the
\* state that was current in m, and the calls made.
HandleOp(m, machine, event, statePtr, action) ==
    Op(HandleKind(m, machine), machine, m, event, currentState[m],
       <<Call("handle", statePtr, machine, statePtr, event, action)>>
       \o ExecuteCalls(action, machine, statePtr, event))

\* lastOp after one more call of the running handleBy.
Traced(call) == [lastOp EXCEPT !.calls = Append(@, call)]

\* A hook called by the caller on a reference that transitionTo<State>()
\* returned at some time in the life of the machine, as in
\* LockedState& r = door.transitionTo<LockedState>(); ...; r.onEnter(LockEvent{k}).
\* The reference leads into the machine's tuple and is good while the
\* machine lives.  LockedState::onEnter is public; it is the only member of
\* a state of the door that changes anything.
OnEnterCall(m, event) ==
    /\ pc = Idle /\ alive[m]
    /\ m \in refs
    /\ LET statePtr == AddressOf(m, IndexOf("LockedState"))
       IN /\ HasOnEnter(Deref(statePtr), event)
          /\ states' = Store(statePtr, OnEnter(Deref(statePtr), event))
          /\ lastOp' = Op("onEnter", m, 0, event, currentState[m],
                          <<Call("onEnter", statePtr, m, statePtr, event, statePtr)>>)
    /\ mainRun' = MainRunOff(m)
    /\ copied' = NoCopy
    /\ refs' = refs
    /\ UNCHANGED <<alive, currentState, pc>>

\* Variant of handleBy that refuses an event for which the current state has
\* no transition.
handleByRejects(m, event, machine) ==
    /\ pc = Idle /\ alive[m] /\ alive[machine]
    /\ LET statePtr == currentState[m].ptr
           action == StateHandle(Deref(statePtr), event)
       IN /\ Held(action).action = "TransitionTo"
          /\ lastOp' = HandleOp(m, machine, event, statePtr, action)
          /\ pc' = At("onLeave", machine, statePtr, Held(action).target, event)
    /\ mainRun' = IF m = machine
                  THEN MainRunStep(machine, Statement("handle", 0, event))
                  ELSE MainRunOff(machine)
    /\ copied' = IF m = machine THEN CopiedHandle(machine) ELSE NoCopy
    /\ refs' = refs
    /\ UNCHANGED <<alive, states, currentState>>

\* Variant of handleBy that passes the first state instead of the current one.
handleByFirst(m, event, machine) ==
    /\ pc = Idle /\ alive[m] /\ alive[machine]
    /\ LET statePtr == AddressOf(m, 0)
           action == StateHandle(Deref(statePtr), event)
       IN /\ lastOp' = HandleOp(m, machine, event, statePtr, action)
          /\ pc' = IF Held(action).action = "TransitionTo"
                   THEN At("onLeave", machine, statePtr, Held(action).target, event)
                   ELSE Idle
    /\ mainRun' = IF m = machine
                  THEN MainRunStep(machine, Statement("handle", 0, event))
                  ELSE MainRunOff(machine)
    /\ copied' = IF m = machine THEN CopiedHandle(machine) ELSE NoCopy
    /\ refs' = refs
    /\ UNCHANGED <<alive, states, currentState>>

\* Variant of handleBy that can be entered while another handle is running.
handleByReentrant(m, event, machine) ==
    /\ alive[m] /\ alive[machine]
    /\ LET statePtr == currentState[m].ptr
           action == StateHandle(Deref(statePtr), event)
       IN /\ lastOp' = HandleOp(m, machine, event, statePtr, action)
          /\ pc' = IF Held(action).action = "TransitionTo"
                   THEN At("onLeave", machine, statePtr, Held(action).target, event)
                   ELSE Idle
    /\ mainRun' = IF m = machine
                  THEN MainRunStep(machine, Statement("handle", 0, event))
                  ELSE MainRunOff(machine)
    /\ copied' = IF m = machine THEN CopiedHandle(machine) ELSE NoCopy
    /\ refs' = refs
    /\ UNCHANGED <<alive, states, currentState>>

\* handleBy(event, machine) on machine m: std::visit passes the pointer held
\* by currentState to passEventToState, which asks the pointee for an action
\* and executes the action on `machine`.  Nothing::execute returns at once;
\* TransitionTo::execute continues with the leave hook.
handleBy(m, event, machine) ==
    /\ pc = Idle /\ alive[m] /\ alive[machine]
    /\ LET statePtr == currentState[m].ptr
           action == StateHandle(Deref(statePtr), event)
       IN /\ lastOp' = HandleOp(m, machine, event, statePtr, action)
          /\ pc' = IF Held(action).action = "TransitionTo"
                   THEN At("onLeave", machine, statePtr, Held(action).target, event)
                   ELSE Idle
    /\ mainRun' = IF m = machine
                  THEN MainRunStep(machine, Statement("handle", 0, event))
                  ELSE MainRunOff(machine)
    /\ copied' = IF m = machine THEN CopiedHandle(machine) ELSE NoCopy
    /\ refs' = refs
    /\ UNCHANGED <<alive, states, currentState>>

\* void handle(const Event& event) { handleBy(event, *this); }
handle(m, event) == handleBy(m, event, m)

\* Variant of Leave that gives the transition up when the hook is missing.
LeaveAbandons ==
    /\ pc.at = "onLeave"
    /\ IF HasOnLeave(Deref(pc.state), pc.event)
       THEN /\ states' = Store(pc.state, OnLeave(Deref(pc.state), pc.event))
            /\ lastOp' = Traced(Call("onLeave", pc.state, pc.machine, pc.state, pc.event, "void"))
            /\ pc' = [pc EXCEPT !.at = "transitionTo"]
       ELSE /\ pc' = Idle
            /\ UNCHANGED <<states, lastOp>>
    /\ UNCHANGED <<alive, currentState, mainRun, copied, refs>>

\* TransitionTo<TargetState>::execute, step 1: prevState.onLeave(event), when
\* the state has that hook.
Leave ==
    /\ pc.at = "onLeave"
    /\ IF HasOnLeave(Deref(pc.state), pc.event)
       THEN /\ states' = Store(pc.state, OnLeave(Deref(pc.state), pc.event))
            /\ lastOp' = Traced(Call("onLeave", pc.state, pc.machine, pc.state, pc.event, "void"))
       ELSE UNCHANGED <<states, lastOp>>
    /\ pc' = [pc EXCEPT !.at = "transitionTo"]
    /\ UNCHANGED <<alive, currentState, mainRun, copied, refs>>

\* Variant of Switch in which the enter hook is reached before the switch.
SwitchLate ==
    /\ pc.at = "transitionTo"
    /\ pc' = [pc EXCEPT !.at = "onEnter", !.state = transitionTo(pc.machine, pc.target).ptr]
    /\ UNCHANGED <<alive, states, currentState, lastOp, mainRun, copied, refs>>

\* step 2: TargetState& newState = machine.transitionTo<TargetState>()
Switch ==
    /\ pc.at = "transitionTo"
    /\ currentState' = [currentState EXCEPT ![pc.machine] = transitionTo(pc.machine, pc.target)]
    /\ lastOp' = Traced(Call("transitionTo", pc.target, pc.machine, pc.state, pc.event,
                                   transitionTo(pc.machine, pc.target).ptr))
    /\ pc' = [pc EXCEPT !.at = "onEnter", !.state = transitionTo(pc.machine, pc.target).ptr]
    /\ UNCHANGED <<alive, states, mainRun, copied, refs>>

\* step 3: newState.onEnter(event), when the state has that hook.
Enter ==
    /\ pc.at = "onEnter"
    /\ IF HasOnEnter(Deref(pc.state), pc.event)
       THEN /\ states' = Store(pc.state, OnEnter(Deref(pc.state), pc.event))
            /\ lastOp' = Traced(Call("onEnter", pc.state, pc.machine, pc.state, pc.event, "void"))
       ELSE UNCHANGED <<states, lastOp>>
    /\ pc' = Idle
    /\ UNCHANGED <<alive, currentState, mainRun, copied, refs>>

Next ==
    \/ \E m \in Machines :
          pc = Idle /\ ~alive[m] /\ OneProgram(DefaultStates) /\ DefaultConstruct(m)
    \/ \E m \in Machines :
          pc = Idle /\ ~alive[m] /\ OneProgram(DefaultStates) /\ Construct(m, DefaultStates)
    \/ \E m \in Machines :
          /\ pc = Idle /\ ~alive[m]
          /\ \E key \in Keys :
                OneProgram(DoorStates(key)) /\ Construct(m, DoorStates(key))
    \/ \E m \in Machines : Destroy(m)
    \/ \E m, other \in Machines : CopyConstruct(m, other)
    \/ \E m, other \in Machines : MoveConstruct(m, other)
    \/ \E m, other \in Machines : CopyAssign(m, other)
    \/ \E m, other \in Machines : MoveAssign(m, other)
    \/ \E m \in Machines, i \in Indices : TransitionToCall(m, get(Door, i))
    \/ \E m \in Machines, event \in Events : handle(m, event)
    \/ \E m, machine \in Machines :
          /\ pc = Idle /\ m # machine
          /\ alive[m] /\ alive[machine] /\ SameType(m, machine)
          /\ \E event \in Events : handleBy(m, event, machine)
    \/ \E m \in Machines, event \in Events : OnEnterCall(m, event)
    \/ Leave
    \/ Switch
    \/ Enter

Spec == Init /\ [][Next]_vars

\* ---------------------------------------------------------------- properties
\* The type of the state an alive machine reports as current.
Current(m) == Deref(currentState[m].ptr).type

CopyKinds ==
    {"StateMachine(const StateMachine&)", "StateMachine(StateMachine&&)",
     "operator=(const StateMachine&)", "operator=(StateMachine&&)"}

\* The action is Nothing, or a OneOf that holds such an action.
RECURSIVE IsNoOp(_)
IsNoOp(action) ==
    \/ action = Nothing
    \/ action.action = "OneOf" /\ IsNoOp(action.options)

\* The action is TransitionTo<B>, or a OneOf that holds such an action.
RECURSIVE IsTransitionTo(_, _)
IsTransitionTo(action, B) ==
    \/ action = TransitionTo(B)
    \/ action.action = "OneOf" /\ IsTransitionTo(action.options, B)

\* C1: in every reachable state, also in the middle of handle, every alive
\* machine has exactly one current state, held by a pointer that is not
\* null and points at the element of the machine's own tuple whose position
\* is the variant's index, so at a live object of the type the index names.
CurrentStateIsOwn ==
    \A m \in Machines : alive[m] =>
        /\ currentState[m].index \in Indices
        /\ currentState[m].ptr # NullPtr
        /\ currentState[m].ptr.machine = m
        /\ currentState[m].ptr = AddressOf(m, currentState[m].index)
        /\ Current(m) = get(Door, currentState[m].index)
        /\ Cardinality({I \in Indices : currentState[m].ptr = AddressOf(m, I)}) = 1

\* C1 witness: a machine that was copy-constructed from another one whose
\* current state was LockedState, both alive.
CurrentStateIsOwnWitness ==
    /\ lastOp.kind = "StateMachine(const StateMachine&)"
    /\ alive[lastOp.m] /\ alive[lastOp.src]
    /\ lastOp.from.index = 2
    /\ currentState[lastOp.m].ptr.machine = lastOp.m

\* C2: while TransitionTo executes, the outgoing state (the state that
\* handled the event, in a handle the machine's own current state) is still
\* current at the point of the leave hook and up to the switch, and the target state is
\* current at the point of the enter hook; the hooks that are called are
\* called in the order onLeave, transitionTo, onEnter, the leave hook on the
\* state that handled the event and the enter hook on the state that
\* transitionTo returned.
LeaveSwitchEnterOrder ==
    /\ pc.at \in {"onLeave", "transitionTo"} =>
          /\ currentState[lastOp.src] = lastOp.from
          /\ pc.state = lastOp.from.ptr
          /\ lastOp.kind = "handle" => lastOp.src = pc.machine
    /\ pc.at = "onEnter" =>
          /\ currentState[pc.machine].index = IndexOf(pc.target)
          /\ currentState[pc.machine].ptr = pc.state
          /\ Current(pc.machine) = pc.target
    /\ lastOp.kind = "handle" =>
          \A i \in DOMAIN lastOp.calls :
             LET c == lastOp.calls[i]
                 switches == {j \in DOMAIN lastOp.calls : lastOp.calls[j].fn = "transitionTo"}
             IN /\ c.fn = "onLeave" =>
                      /\ c.current = lastOp.from
                      /\ c.self = lastOp.from.ptr
                      /\ \A j \in switches : i < j
                /\ c.fn = "transitionTo" =>
                      /\ c.current = lastOp.from
                      /\ switches = {i}
                /\ c.fn = "onEnter" =>
                      /\ c.current.ptr = c.self
                      /\ c.current.index = IndexOf(Held(lastOp.calls[1].result).target)
                      /\ \E j \in switches : j < i /\ lastOp.calls[j].result = c.self

\* C2 witness: the enter hook of LockedState has run for a LockEvent after
\* the switch from ClosedState, and the handle is complete.
LeaveSwitchEnterOrderWitness ==
    /\ lastOp.kind = "handle" /\ pc = Idle
    /\ lastOp.from.index = 0
    /\ \E i \in DOMAIN lastOp.calls :
          /\ lastOp.calls[i].fn = "onEnter"
          /\ lastOp.calls[i].current.index = 2
          /\ i > 1 /\ lastOp.calls[i - 1].fn = "transitionTo"

\* C3: a handle (a step from idle that records a handle) whose handler
\* returns Nothing, directly or held by a Maybe/OneOf, is complete in that
\* step and changes neither the current state nor the data of any state of
\* any machine; the handler
\* still returns a no-op afterwards, so repeating the call does the same.
NoOpHandleChangesNothing ==
    [][(pc.at = "idle" /\ lastOp'.kind = "handle") =>
          LET m == lastOp'.m
              event == lastOp'.args
          IN (IsNoOp(StateHandle(Deref(currentState[m].ptr), event)) /\ handle(m, event))
                => /\ currentState' = currentState
                   /\ states' = states
                   /\ alive' = alive
                   /\ pc' = Idle
                   /\ IsNoOp(StateHandle(get(states'[m], currentState'[m].ptr.elem), event))]_vars

\* C3 witness: a complete handle of an UnlockEvent with the wrong key by a
\* machine whose current state is LockedState.
NoOpHandleChangesNothingWitness ==
    /\ lastOp.kind = "handle" /\ pc = Idle
    /\ lastOp.args.type = "UnlockEvent"
    /\ IsNoOp(lastOp.calls[1].result)
    /\ lastOp.calls[1].result.action = "OneOf"
    /\ currentState[lastOp.m].index = 2

\* C4: after a machine is copied (copy construction or copy assignment) in
\* state B and the original has handled events since, while it stayed in B
\* and when it went to another state C, the copy's current state is still B,
\* the state that was current in the original at the time of the copy, in
\* the copy's own tuple.
CopyIndependence ==
    (copied # NoCopy /\ lastOp.kind = "handle" /\ lastOp.m = copied.orig) =>
        /\ alive[copied.copy]
        /\ currentState[copied.copy] = Variant(copied.index, AddressOf(copied.copy, copied.index))
        /\ Current(copied.copy) = get(Door, copied.index)

\* C4 witness: the original has completed a transition away from the state
\* the copy was taken in.
CopyIndependenceWitness ==
    /\ copied # NoCopy /\ pc = Idle
    /\ lastOp.kind = "handle" /\ lastOp.m = copied.orig
    /\ currentState[copied.orig].index # copied.index
    /\ copied.index # 0

\* C5: right after copy construction, move construction, copy assignment or
\* move assignment from another machine, the destination's variant has the
\* index the source's variant had and holds the address of the element at
\* that position of the destination's own tuple, not the pointer of the
\* source.
CopyKeepsIndex ==
    (lastOp.kind \in CopyKinds /\ lastOp.m # lastOp.src) =>
        /\ currentState[lastOp.m].index = lastOp.from.index
        /\ currentState[lastOp.m].ptr = AddressOf(lastOp.m, lastOp.from.index)
        /\ currentState[lastOp.m].ptr # lastOp.from.ptr
        /\ states[lastOp.m] = states[lastOp.src]

\* C5 witness: a move assignment from a machine whose current state is
\* OpenState, whose value equals no other state's but carries no data, to a
\* machine that was in another state.
CopyKeepsIndexWitness ==
    /\ lastOp.kind = "operator=(StateMachine&&)" /\ lastOp.m # lastOp.src
    /\ lastOp.from.index = 1
    /\ currentState[lastOp.m].index = 1

\* C6: right after construction the first state type of the list is current
\* and the tuple holds the values the caller passed (the value-initialised
\* states for the default constructor); for Door{ClosedState{}, OpenState{},
\* LockedState{0x11}} that is ClosedState current and key 0x11.
ConstructedInFirstState ==
    (lastOp.kind \in {"StateMachine()", "StateMachine(States...)"}) =>
        /\ currentState[lastOp.m] = Variant(0, AddressOf(lastOp.m, 0))
        /\ Current(lastOp.m) = get(Door, 0)
        /\ lastOp.kind = "StateMachine(States...)" => states[lastOp.m] = lastOp.args
        /\ lastOp.kind = "StateMachine()" => states[lastOp.m] = DefaultStates
        /\ lastOp.args = DoorStates(17) =>
              /\ Current(lastOp.m) = "ClosedState"
              /\ get(states[lastOp.m], 2).key = 17

\* C6 witness: the door of main() has just been constructed.
ConstructedInFirstStateWitness ==
    /\ lastOp.kind = "StateMachine(States...)"
    /\ lastOp.args = DoorStates(17)
    /\ alive[lastOp.m]

\* C6 witness for the default constructor.
DefaultConstructedWitness ==
    /\ lastOp.kind = "StateMachine()"
    /\ alive[lastOp.m]

\* C7: handle calls the handler exactly once, on the state that was current
\* when handle was called and with the event passed, and then calls execute
\* exactly once on the action the handler returned, with the machine itself,
\* the state that handled the event and the same event.
HandleDispatchesToCurrent ==
    lastOp.kind = "handle" =>
        LET calls == lastOp.calls
            handlers == {i \in DOMAIN calls : calls[i].fn = "handle"}
            executes == {i \in DOMAIN calls :
                            calls[i].fn = "execute" /\ calls[i].self = calls[1].result}
        IN /\ handlers = {1}
           /\ calls[1].self = lastOp.from.ptr
           /\ calls[1].self = AddressOf(lastOp.m, lastOp.from.index)
           /\ calls[1].event = lastOp.args
           /\ calls[1].current = lastOp.from
           /\ executes = {2}
           /\ calls[2].machine = lastOp.m
           /\ calls[2].state = calls[1].self
           /\ calls[2].event = lastOp.args
           /\ calls[2].current = lastOp.from

\* C7 witness: a LockedState that was current has handled an UnlockEvent
\* with its key and the returned action has been executed to the end.
HandleDispatchesToCurrentWitness ==
    /\ lastOp.kind = "handle" /\ pc = Idle
    /\ lastOp.from.index = 2
    /\ lastOp.args.type = "UnlockEvent"
    /\ currentState[lastOp.m].index = 0

\* C8: once handle, or handleBy for another machine, has started a
\* transition, every step until that call is complete is the next step of
\* the same transition (leave hook, then switch, then enter hook) on the
\* same machine for the same event, and no handler is called in between.
HandleRunsToCompletion ==
    [][pc.at # "idle" =>
          /\ lastOp.kind \in {"handle", "handleBy"}
          /\ lastOp'.kind = lastOp.kind
          /\ lastOp'.m = lastOp.m /\ lastOp'.src = lastOp.src /\ lastOp'.args = lastOp.args /\ lastOp'.from = lastOp.from
          /\ Len(lastOp'.calls) >= Len(lastOp.calls)
          /\ SubSeq(lastOp'.calls, 1, Len(lastOp.calls)) = lastOp.calls
          /\ \A i \in DOMAIN lastOp'.calls :
                i > Len(lastOp.calls) => lastOp'.calls[i].fn \notin {"handle", "execute"}
          /\ pc.at = "onLeave" => pc'.at = "transitionTo"
          /\ pc.at = "transitionTo" => pc'.at = "onEnter"
          /\ pc.at = "onEnter" => pc'.at = "idle"
          /\ pc'.at # "idle" =>
                /\ pc'.machine = pc.machine
                /\ pc'.event = pc.event
                /\ pc'.target = pc.target]_vars

\* C8 witness: a machine is between the switch and the enter hook while
\* another machine is alive and could be given an event.
HandleRunsToCompletionWitness ==
    /\ pc.at = "onEnter"
    /\ \E m \in Machines : m # pc.machine /\ alive[m]

\* The transitions of the door's state diagram.
DoorTransitions ==
    {<<"ClosedState", "LockEvent", "LockedState">>,
     <<"ClosedState", "OpenEvent", "OpenState">>,
     <<"OpenState", "CloseEvent", "ClosedState">>,
     <<"LockedState", "UnlockEvent", "ClosedState">>}

\* The step is a direct call of the public transitionTo<State>() on m.
ByTransitionTo(m) ==
    pc = Idle /\ lastOp'.kind = "transitionTo" /\ lastOp'.m = m

\* The step is an assignment to m from another machine.
ByAssignment(m) ==
    /\ pc = Idle
    /\ lastOp'.kind \in {"operator=(const StateMachine&)", "operator=(StateMachine&&)"}
    /\ lastOp'.m = m /\ lastOp'.src # m

\* The step belongs to a transition that handleBy(event, machine), called on
\* another machine, runs on m.
ByHandleBy(m) ==
    pc.at # "idle" /\ lastOp.kind = "handleBy" /\ pc.machine = m /\ lastOp.src # m

\* The step is a call of onEnter by the caller, on a kept reference to the
\* LockedState of m.
ByHookCall(m) ==
    pc = Idle /\ lastOp'.kind = "onEnter" /\ lastOp'.m = m

\* C9 as claimed: every change of a live machine's current state, from A to
\* B, is made while the machine handles an event E for which the handler of A
\* returned a transition to B, and (A, type of E, B) is one of the four
\* transitions of the door's state diagram; no other change ever occurs.
OnlyDoorTransitionsEver ==
    [][\A m \in Machines :
          (alive[m] /\ alive'[m] /\ currentState'[m] # currentState[m]) =>
             LET A == get(Door, currentState[m].index)
                 B == get(Door, currentState'[m].index)
             IN /\ pc.at = "transitionTo" /\ pc.machine = m
                /\ lastOp.calls[1].self = currentState[m].ptr
                /\ IsTransitionTo(lastOp.calls[1].result, B)
                /\ <<A, pc.event.type, B>> \in DoorTransitions]_vars

\* C9, amended: in a step of handle(event) that changes a machine's current
\* state from A to B, the machine is the one handling the event, the handler
\* that was called is the one of A, the action it returned is TransitionTo<B>
\* (directly or held by a Maybe/OneOf), and (A, event type, B) is one of the
\* four transitions of the door's state diagram.  Outside handle(event) the
\* current state of a live machine changes only in a direct call of
\* transitionTo<State>(), in an assignment from another machine, which gives
\* it the index of the source, and in the switch step of handleBy(event,
\* machine) called on another machine, which takes it to the target of the
\* door transition that the other machine's current state returned.
OnlyDeclaredTransitions ==
    [][/\ lastOp'.kind = "handle" =>
             \A m \in Machines :
                (alive[m] /\ currentState'[m] # currentState[m]) =>
                   LET A == get(Door, currentState[m].index)
                       B == get(Door, currentState'[m].index)
                       E == lastOp.args
                   IN /\ m = lastOp.m /\ lastOp'.m = m
                      /\ lastOp.kind = "handle"
                      /\ lastOp.calls[1].self = currentState[m].ptr
                      /\ lastOp.calls[1].event = E
                      /\ IsTransitionTo(lastOp.calls[1].result, B)
                      /\ lastOp.calls[1].result = StateHandle(Deref(currentState[m].ptr), E)
                      /\ <<A, E.type, B>> \in DoorTransitions
       /\ lastOp'.kind # "handle" =>
             \A m \in Machines :
                (alive[m] /\ alive'[m] /\ currentState'[m] # currentState[m]) =>
                   LET B == get(Door, currentState'[m].index)
                       other == lastOp.src
                   IN \/ ByTransitionTo(m)
                      \/ /\ ByAssignment(m)
                         /\ currentState'[m].index = currentState[lastOp'.src].index
                      \/ /\ ByHandleBy(m) /\ pc.at = "transitionTo"
                         /\ lastOp.calls[1].self = currentState[other].ptr
                         /\ lastOp.calls[1].result
                               = StateHandle(Deref(currentState[other].ptr), lastOp.args)
                         /\ IsTransitionTo(lastOp.calls[1].result, B)
                         /\ <<get(Door, currentState[other].index), lastOp.args.type, B>>
                               \in DoorTransitions]_vars

\* C9 witness: a machine has gone from LockedState to ClosedState while
\* handling an UnlockEvent.
OnlyDeclaredTransitionsWitness ==
    /\ lastOp.kind = "handle" /\ pc.at = "onEnter"
    /\ lastOp.from.index = 2
    /\ currentState[lastOp.m].index = 0
    /\ lastOp.args.type = "UnlockEvent"

\* C10: a machine to which exactly the statements of main() have happened
\* is, after Door{ClosedState{}, OpenState{}, LockedState{0x11}}, in
\* ClosedState with key 0x11; after handle(LockEvent{1234}) in LockedState
\* with key 1234; after handle(UnlockEvent{2}) still in LockedState with key
\* 1234; after handle(UnlockEvent{1234}) in ClosedState.
MainScenario ==
    \A m \in Machines :
        (mainRun[m] > 0 /\ pc.machine # m) =>
            /\ alive[m]
            /\ mainRun[m] = 1 => Current(m) = "ClosedState" /\ get(states[m], 2).key = 17
            /\ mainRun[m] = 2 => Current(m) = "LockedState" /\ get(states[m], 2).key = 1234
            /\ mainRun[m] = 3 => Current(m) = "LockedState" /\ get(states[m], 2).key = 1234
            /\ mainRun[m] = 4 => Current(m) = "ClosedState"

\* C10 witness: all four statements of main() have run on a machine.
MainScenarioWitness ==
    \E m \in Machines : mainRun[m] = 4 /\ pc = Idle /\ lastOp.args = UnlockEvent(1234)

\* The machine is a Door of main.cpp: its LockedState stores a key.
Keyed(m) == "key" \in DOMAIN get(states[m], 2)

\* C11 as claimed: a Door's current state changes from LockedState to
\* ClosedState only while the Door handles an UnlockEvent whose key equals
\* the key its LockedState stores at that moment; and the handle of an
\* UnlockEvent with another key leaves the Door in LockedState.
UnlockOnlyWithStoredKey ==
    [][/\ \A m \in Machines :
             (/\ alive[m] /\ alive'[m] /\ Keyed(m)
              /\ currentState[m].index = 2
              /\ currentState'[m].index = 0)
                => /\ pc.at = "transitionTo" /\ pc.machine = m
                   /\ pc.event.type = "UnlockEvent"
                   /\ pc.event.key = get(states[m], 2).key
       /\ (/\ pc.at = "idle" /\ lastOp'.kind = "handle"
           /\ Keyed(lastOp'.m)
           /\ currentState[lastOp'.m].index = 2
           /\ lastOp'.args.type = "UnlockEvent"
           /\ lastOp'.args.key # get(states[lastOp'.m], 2).key)
             => /\ pc' = Idle
                /\ currentState' = currentState]_vars

\* C11, amended: in the steps of handle(event), a Door's current state
\* changes from LockedState to ClosedState only in the handle of an
\* UnlockEvent whose key equals the key LockedState stores at that moment;
\* the handle of an UnlockEvent with another key by a Door in LockedState is
\* complete at once and leaves LockedState current and all state data as
\* they were.  Outside handle(event) a Door leaves LockedState for
\* ClosedState only in a direct call of transitionTo<ClosedState>(), in an
\* assignment from a machine in ClosedState, and in the switch step of
\* handleBy(event, machine) called on another machine whose current state
\* returned a transition to ClosedState; there the key compared, if any, is
\* the one the other machine stores.
UnlockNeedsKey ==
    [][/\ lastOp'.kind = "handle" =>
             /\ \A m \in Machines :
                   (/\ alive[m] /\ Keyed(m)
                    /\ currentState[m].index = 2
                    /\ currentState'[m].index = 0)
                      => /\ lastOp.kind = "handle" /\ lastOp.m = m
                         /\ lastOp.args.type = "UnlockEvent"
                         /\ lastOp.args.key = get(states[m], 2).key
                         /\ lastOp.args.key = get(states'[m], 2).key
             /\ (/\ pc.at = "idle"
                 /\ Keyed(lastOp'.m)
                 /\ currentState[lastOp'.m].index = 2
                 /\ lastOp'.args.type = "UnlockEvent"
                 /\ lastOp'.args.key # get(states[lastOp'.m], 2).key)
                   => /\ pc' = Idle
                      /\ currentState' = currentState
                      /\ states' = states
       /\ lastOp'.kind # "handle" =>
             \A m \in Machines :
                (/\ alive[m] /\ alive'[m] /\ Keyed(m)
                 /\ currentState[m].index = 2
                 /\ currentState'[m].index = 0)
                   => \/ ByTransitionTo(m)
                      \/ /\ ByAssignment(m)
                         /\ currentState[lastOp'.src].index = 0
                      \/ /\ ByHandleBy(m) /\ pc.at = "transitionTo"
                         /\ IsTransitionTo(lastOp.calls[1].result, "ClosedState")
                         /\ lastOp.calls[1].result
                               = StateHandle(Deref(currentState[lastOp.src].ptr), lastOp.args)
                         /\ lastOp.args.type = "UnlockEvent" =>
                               lastOp.args.key = get(states[lastOp.src], 2).key]_vars

\* C11 witness: a Door whose LockedState stores 1234 has been unlocked by
\* UnlockEvent{1234} and is in ClosedState.
UnlockNeedsKeyWitness ==
    /\ lastOp.kind = "handle" /\ pc = Idle
    /\ Keyed(lastOp.m)
    /\ lastOp.from.index = 2
    /\ currentState[lastOp.m].index = 0
    /\ lastOp.args = UnlockEvent(1234)
    /\ get(states[lastOp.m], 2).key = 1234

\* C12: every call of transitionTo<T>(), made directly or by a transition
\* action, makes the machine's own instance of T current and returns that
\* instance, and changes nothing else: the data of every owned state and the
\* other machines are as before; a direct call runs no onLeave or onEnter
\* hook, and one for the state that is already current leaves the machine
\* as it was.
TransitionToOnlySwitches ==
    [][(\/ pc.at = "transitionTo"
        \/ pc.at = "idle" /\ lastOp'.kind = "transitionTo")
          => LET n == Len(lastOp'.calls)
                 m == IF pc.at = "idle" THEN lastOp'.m ELSE pc.machine
                 T == IF pc.at = "idle" THEN lastOp'.calls[1].self ELSE pc.target
                 I == IndexOf(T)
             IN /\ currentState'[m] = Variant(I, AddressOf(m, I))
                /\ \A o \in Machines \ {m} : currentState'[o] = currentState[o]
                /\ states' = states
                /\ alive' = alive
                /\ currentState[m].index = I => currentState' = currentState
                /\ pc.at = "idle" =>
                      /\ n = 1 /\ pc' = Idle
                      /\ lastOp'.calls[1].fn = "transitionTo"
                      /\ lastOp'.calls[1].result = AddressOf(m, I)
                /\ pc.at = "transitionTo" =>
                      /\ pc'.at = "onEnter" /\ pc'.state = AddressOf(m, I)
                      /\ lastOp.kind = "handle" =>
                            /\ lastOp'.calls[n].fn = "transitionTo"
                            /\ lastOp'.calls[n].self = T
                            /\ lastOp'.calls[n].result = AddressOf(m, I)
                            /\ lastOp'.calls = Append(lastOp.calls, lastOp'.calls[n])]_vars

\* C12 witness: transitionTo<LockedState>() was called directly on a Door in
\* ClosedState whose LockedState stores a key; LockedState is current.
TransitionToOnlySwitchesWitness ==
    /\ lastOp.kind = "transitionTo"
    /\ Keyed(lastOp.m)
    /\ lastOp.from.index = 0
    /\ lastOp.calls[1].self = "LockedState"
    /\ currentState[lastOp.m] = Variant(2, AddressOf(lastOp.m, 2))

\* The one transition of the door whose target has a hook for the event:
\* LockedState::onEnter(const LockEvent&) of a Door with a key.
EntersLockedOnLock ==
    /\ pc.at = "onEnter"
    /\ pc.target = "LockedState"
    /\ pc.event.type = "LockEvent"
    /\ Keyed(pc.machine)

\* C13: a transition completes although hooks are missing.  No door state has
\* an onLeave hook: the leave step is skipped, it calls nothing and changes
\* nothing, and the transition goes on to the switch.  Where the target has
\* no onEnter hook for the event the enter step is skipped in the same way
\* and the handle is complete with the target current.  In the whole handling
\* of an event the data of the states change only in the enter step of
\* ClosedState -> LockedState on a LockEvent.
MissingHooksSkipped ==
    [][/\ pc.at = "onLeave"
            => /\ pc' = [pc EXCEPT !.at = "transitionTo"]
               /\ UNCHANGED <<states, currentState, lastOp, alive>>
       /\ (pc.at = "onEnter" /\ ~EntersLockedOnLock)
            => /\ pc' = Idle
               /\ UNCHANGED <<states, currentState, lastOp, alive>>
               /\ currentState[pc.machine] =
                     Variant(IndexOf(pc.target), AddressOf(pc.machine, IndexOf(pc.target)))
       /\ (lastOp'.kind = "handle" /\ states' # states)
            => /\ EntersLockedOnLock
               /\ lastOp.from.index = 0]_vars

\* C13 witness: a Door has gone from ClosedState to OpenState on an OpenEvent;
\* the handle is complete and the only calls made were the handler, the
\* action and transitionTo.
MissingHooksSkippedWitness ==
    /\ lastOp.kind = "handle" /\ pc = Idle
    /\ Keyed(lastOp.m)
    /\ lastOp.args = OpenEvent
    /\ lastOp.from.index = 0
    /\ currentState[lastOp.m] = Variant(1, AddressOf(lastOp.m, 1))
    /\ Len(lastOp.calls) = 3
    /\ lastOp.calls[3].fn = "transitionTo"

\* The machine is in a valid state: the variant holds the address of the
\* own tuple element of its index and that element is a state of the door.
ValidMachine(m) ==
    /\ currentState[m].index \in Indices
    /\ currentState[m].ptr = AddressOf(m, currentState[m].index)
    /\ Current(m) = get(Door, currentState[m].index)

\* The machines the latest operation acted on or read: the machine it was
\* called for and the machine it took its argument or its handler from.  An
\* operation changes no other machine.
Touched == {lastOp.m, lastOp.src} \cap Machines

\* No operation is stuck: with no handle running, every live machine the
\* latest operation touched can handle every event; a running handle can
\* take its next step.
CanHandle ==
    /\ pc = Idle =>
          \A m \in Touched : alive[m] =>
             \A event \in Events : ENABLED handle(m, event)
    /\ pc.at = "onLeave" => ENABLED Leave
    /\ pc.at = "transitionTo" => ENABLED Switch
    /\ pc.at = "onEnter" => ENABLED Enter
    /\ pc.at \in {"idle", "onLeave", "transitionTo", "onEnter"}

\* C14: handle never fails at run time.  At all times: whenever no handle is
\* running, every live machine can handle every event of every type and
\* payload (checked after each operation for the machines it touched, which
\* are the only ones it can have changed); a handle that has started a
\* transition can take its next step, so it runs on to completion; and every
\* live machine is in a valid state.
HandleNeverFails ==
    /\ [](CanHandle /\ \A m \in Machines : alive[m] => ValidMachine(m))
    /\ [][\A o \in Machines \ {lastOp'.m, lastOp'.src} :
             /\ alive'[o] = alive[o]
             /\ states'[o] = states[o]
             /\ currentState'[o] = currentState[o]]_vars

\* C14 witness: a Door in LockedState was handed an OpenEvent, for which
\* LockedState has no transition; the handle is complete and the machine is
\* still in LockedState.
HandleNeverFailsWitness ==
    /\ lastOp.kind = "handle" /\ pc = Idle
    /\ lastOp.args = OpenEvent
    /\ lastOp.from.index = 2
    /\ alive[lastOp.m]
    /\ ValidMachine(lastOp.m)
    /\ currentState[lastOp.m] = lastOp.from

\* The alternatives a OneOf can hold.
Alternatives(oneOf) == {oneOf.alternatives[k] : k \in DOMAIN oneOf.alternatives}

\* The positions of the running operation's calls of execute on `action`.
ExecutesOf(action) ==
    {j \in DOMAIN lastOp.calls :
        lastOp.calls[j].fn = "execute" /\ lastOp.calls[j].self = action}

\* C15: a OneOf holds exactly one of its alternatives, the one it was built
\* from: the object executed is the object the handler returned.  Its execute
\* executes the held alternative next, once, with the same machine, state and
\* event, and executes no other alternative; what the handle then does is
\* what the held alternative does: a held TransitionTo<T> ends with T
\* current, a held Nothing ends the handle at once with the machine as it
\* was.
OneOfExecutesHeld ==
    lastOp.kind = "handle" =>
       \A i \in DOMAIN lastOp.calls :
          (lastOp.calls[i].fn = "execute" /\ lastOp.calls[i].self.action = "OneOf")
             => LET call == lastOp.calls[i]
                    oneOf == call.self
                    held == oneOf.options
                IN /\ held \in Alternatives(oneOf)
                   /\ oneOf = lastOp.calls[i - 1].result
                   /\ ExecutesOf(held) = {i + 1}
                   /\ lastOp.calls[i + 1].machine = call.machine
                   /\ lastOp.calls[i + 1].state = call.state
                   /\ lastOp.calls[i + 1].event = call.event
                   /\ \A other \in Alternatives(oneOf) \ {held} : ExecutesOf(other) = {}
                   /\ held = Nothing
                        => /\ pc = Idle
                           /\ Len(lastOp.calls) = i + 1
                           /\ currentState[lastOp.m] = lastOp.from
                   /\ held.action = "TransitionTo"
                        => /\ pc.at = "onLeave" => pc.target = held.target
                           /\ pc = Idle
                                => /\ lastOp.calls[i + 2].fn = "transitionTo"
                                   /\ lastOp.calls[i + 2].self = held.target
                                   /\ Current(lastOp.m) = held.target

\* C15 witness: LockedState returned a Maybe<TransitionTo<ClosedState>>
\* holding the transition; the handle executed the OneOf, then the
\* transition, and ClosedState is current.
OneOfExecutesHeldWitness ==
    /\ lastOp.kind = "handle" /\ pc = Idle
    /\ lastOp.calls[2].fn = "execute"
    /\ lastOp.calls[2].self =
          OneOf(<<TransitionTo("ClosedState"), Nothing>>, TransitionTo("ClosedState"))
    /\ lastOp.calls[3].fn = "execute"
    /\ lastOp.calls[3].self = TransitionTo("ClosedState")
    /\ Current(lastOp.m) = "ClosedState"

\* C16: a Maybe<A> is a OneOf<A, Nothing> holding what it was built from, and
\* handling an event with it has the effect of handling it with the held
\* action alone.  With `leaf` the action a handler returned, or the action
\* held by the Maybe it returned, the calls from leaf's execute on and the
\* outcome are the same in both cases: for Nothing the handle is complete at
\* once and the machine is as it was; for TransitionTo<T> the handle goes on
\* to the leave step with target T and ends with T current.  LockedState
\* builds its Maybe<TransitionTo<ClosedState>> from the transition when the
\* keys are equal and from Nothing when they are not.
MaybeIsOneOfWithNothing ==
    lastOp.kind = "handle" =>
       LET m == lastOp.m
           r == lastOp.calls[1].result
           isMaybe == r.action = "OneOf"
           leaf == IF isMaybe THEN r.options ELSE r
           first == IF isMaybe THEN 3 ELSE 2
       IN /\ isMaybe =>
                /\ r.alternatives = <<TransitionTo("ClosedState"), Nothing>>
                /\ lastOp.calls[2].fn = "execute" /\ lastOp.calls[2].self = r
                /\ Keyed(m) /\ lastOp.from.index = 2
                /\ lastOp.args.type = "UnlockEvent"
                /\ r.options = IF lastOp.args.key = get(states[m], 2).key
                               THEN TransitionTo("ClosedState")
                               ELSE Nothing
          /\ lastOp.calls[first].fn = "execute"
          /\ lastOp.calls[first].self = leaf
          /\ leaf = Nothing =>
                /\ pc = Idle
                /\ Len(lastOp.calls) = first
                /\ currentState[m] = lastOp.from
          /\ leaf.action = "TransitionTo" =>
                /\ pc # Idle => pc.machine = m /\ pc.target = leaf.target
                                   /\ pc.event = lastOp.args
                /\ pc.at = "onLeave" => Len(lastOp.calls) = first
                                           /\ pc.state = lastOp.from.ptr
                /\ pc = Idle =>
                      /\ lastOp.calls[first + 1].fn = "transitionTo"
                      /\ lastOp.calls[first + 1].self = leaf.target
                      /\ Current(m) = leaf.target
          /\ leaf.action \in {"Nothing", "TransitionTo"}

\* C16 witness: LockedState with key 1234 got UnlockEvent{2} and returned a
\* Maybe built from Nothing; the handle executed it and Nothing, and the
\* machine is as it was.
MaybeIsOneOfWithNothingWitness ==
    /\ lastOp.kind = "handle" /\ pc = Idle
    /\ lastOp.args = UnlockEvent(2)
    /\ get(states[lastOp.m], 2) = LockedState(1234)
    /\ lastOp.calls[1].result = OneOf(<<TransitionTo("ClosedState"), Nothing>>, Nothing)
    /\ Len(lastOp.calls) = 3
    /\ lastOp.calls[3].self = Nothing
    /\ currentState[lastOp.m] = lastOp.from

\* The (state, event) pairs of the door for which the state has a handler of
\* its own: the On<...> bases of ClosedState and OpenState and
\* LockedState::handle(const UnlockEvent&).
SpecificHandlers == {<<t[1], t[2]>> : t \in DoorTransitions}

\* C17: at the start of every handle, with the pair of the current state
\* and the event's type: where the state has no handler of its own the
\* answer is the fixed action of ByDefault<Nothing>, the handle is complete at
\* once and the machine is unchanged; where it has one, the answer is that
\* handler's action and not the default.
DefaultOnlyWithoutHandler ==
    [][(pc.at = "idle" /\ lastOp'.kind = "handle")
          => LET m == lastOp'.m
                 pair == <<Current(m), lastOp'.args.type>>
                 r == lastOp'.calls[1].result
             IN /\ pair \notin SpecificHandlers
                     => /\ r = Nothing
                        /\ pc' = Idle
                        /\ UNCHANGED <<states, currentState, alive>>
                /\ pair = <<"ClosedState", "LockEvent">> => r = TransitionTo("LockedState")
                /\ pair = <<"ClosedState", "OpenEvent">> => r = TransitionTo("OpenState")
                /\ pair = <<"OpenState", "CloseEvent">> => r = TransitionTo("ClosedState")
                /\ pair = <<"LockedState", "UnlockEvent">>
                     => IF Keyed(m)
                        THEN /\ r.action = "OneOf"
                             /\ r.alternatives = <<TransitionTo("ClosedState"), Nothing>>
                        ELSE r = TransitionTo("ClosedState")]_vars

\* C17 witness: a Door in OpenState got a LockEvent, for which OpenState has
\* no handler of its own; the answer was Nothing and OpenState is current.
DefaultOnlyWithoutHandlerWitness ==
    /\ lastOp.kind = "handle" /\ pc = Idle
    /\ Keyed(lastOp.m)
    /\ lastOp.args = LockEvent(1234)
    /\ lastOp.from.index = 1
    /\ lastOp.calls[1].result = Nothing
    /\ currentState[lastOp.m] = lastOp.from

\* The operations of the engine that set currentState: the constructors,
\* the copy and move operations and transitionTo; the destructor ends the
\* machine's life.
EngineKinds ==
    CopyKinds \cup {"StateMachine()", "StateMachine(States...)", "~StateMachine()",
                    "transitionTo"}

\* C18: the variant of a machine changes only in a step of an engine
\* operation on that machine: a constructor, a copy or move, an assignment, a
\* direct transitionTo, or the transitionTo call of a transition action.  The
\* step in which a handler is asked for its action changes no variant and no
\* state data; the steps of the onLeave and onEnter hooks, a hook called by
\* the caller on the reference transitionTo returned included, change no
\* variant, and of the state data at most the fields of the state the hook
\* is called on, in place.
OnlyEngineSetsCurrent ==
    [][/\ \A m \in Machines :
             currentState'[m] # currentState[m]
                => \/ pc.at = "transitionTo" /\ pc.machine = m
                   \/ pc.at = "idle" /\ lastOp'.m = m /\ lastOp'.kind \in EngineKinds
       /\ (pc.at = "idle" /\ lastOp'.kind = "handle")
             => UNCHANGED <<currentState, states, alive>>
       /\ (pc.at = "idle" /\ lastOp'.kind = "onEnter")
             => /\ UNCHANGED <<currentState, alive>>
                /\ \A m \in Machines : \A I \in Indices :
                      (alive[m] /\ AddressOf(m, I) # lastOp'.calls[1].self)
                         => get(states'[m], I) = get(states[m], I)
       /\ pc.at \in {"onLeave", "onEnter"}
             => /\ UNCHANGED <<currentState, alive>>
                /\ \A m \in Machines : \A I \in Indices :
                      (alive[m] /\ AddressOf(m, I) # pc.state)
                         => get(states'[m], I) = get(states[m], I)
                /\ Deref(pc.state).type = get(Door, pc.state.elem)
                /\ get(states'[pc.state.machine], pc.state.elem).type = Deref(pc.state).type]_vars

\* C18 witness: LockedState::onEnter has stored the key 1234 in the
\* LockedState of one Door while another live Door keeps the key 17 in its
\* own, and the variants are as transitionTo left them.
OnlyEngineSetsCurrentWitness ==
    /\ lastOp.kind = "handle" /\ pc = Idle
    /\ lastOp.calls[Len(lastOp.calls)].fn = "onEnter"
    /\ get(states[lastOp.m], 2) = LockedState(1234)
    /\ currentState[lastOp.m] = Variant(2, AddressOf(lastOp.m, 2))
    /\ \E o \in Machines \ {lastOp.m} : alive[o] /\ get(states[o], 2) = LockedState(17)

CopySharesNothing ==
    [][/\ (/\ lastOp'.kind \in {"StateMachine(const StateMachine&)",
                                "operator=(const StateMachine&)"}
           /\ lastOp'.m # lastOp'.src)
             => LET m == lastOp'.m
                    other == lastOp'.src
                IN /\ states'[m] = states[other]
                   /\ states'[other] = states[other]
                   /\ currentState'[other] = currentState[other]
                   /\ currentState'[m].index = currentState[other].index
                   /\ currentState'[m].ptr.machine = m
       /\ lastOp'.kind = "handle"
             => /\ lastOp'.calls[1].self.machine = lastOp'.m
                /\ \A o \in Machines \ {lastOp'.m} :
                      /\ currentState'[o] = currentState[o]
                      /\ states'[o] = states[o]
                      /\ alive'[o] = alive[o]]_vars

\* C22 witness: after a Door was copied the original went to LockedState on
\* a LockEvent and stores that event's key, while the copy is in the state
\* of the time of the copy and its LockedState keeps the other key.
CopySharesNothingWitness ==
    /\ copied # NoCopy /\ pc = Idle
    /\ lastOp.kind = "handle" /\ lastOp.m = copied.orig
    /\ lastOp.calls[Len(lastOp.calls)].fn = "onEnter"
    /\ Keyed(copied.orig) /\ Keyed(copied.copy)
    /\ get(states[copied.orig], 2).key = lastOp.args.newKey
    /\ get(states[copied.copy], 2).key # lastOp.args.newKey
    /\ currentState[copied.copy] = Variant(copied.index, AddressOf(copied.copy, copied.index))
    /\ currentState[copied.orig].index = 2

====
